---- MODULE Spec2Model ----
(***************************************************************************)
(* Model of drivers/video/backlight/rt8555-backlight.c: the RT8555         *)
(* backlight controller.  The register map behind the regmap handle is a   *)
(* byte-addressed in-memory store, the enable GPIO a line that remembers   *)
(* the last value driven.  Each driver entry point (probe, update_status   *)
(* through the backlight core, get_brightness, the shutdown hook) is one   *)
(* action; a bus fault is an input of the action: the regmap call that     *)
(* fails and the errno it fails with.                                      *)
(***************************************************************************)
EXTENDS Integers, Sequences, FiniteSets, TLC

(* ---------------------------------------------------------------------- *)
(* Program constants                                                       *)
(* ---------------------------------------------------------------------- *)
RT8555_MAX_BRIGHTNESS == 1023
RT8555_DEFAULT_CURRENT_LIMIT == 146
RT8555_DEFAULT_LED_DRIVER_HEADROOM == 0
RT8555_DEFAULT_CHANGE_DUTY == 3

RT8555_REG_CFG0 == 0
RT8555_REG_CFG1 == 1
RT8555_REG_CFG8 == 8
RT8555_REG_ILED_CURRENT_LIMIT == 2
RT8555_REG_ILED1_LSB == 4
RT8555_REG_ILED1_MSB == 5

RT8555_DIM_MODE_MASK == 1
RT8555_BRIGHTNESS_SOURCE_MASK == 2
RT8555_CHANGE_DUTY_MASK == 12
RT8555_LED_DRIVER_HEADROOM_MASK == 12
RT8555_MIX_26K_MASK == 128
RT8555_EN10BIT_MASK == 128
RT8555_LSB_MASK == 255

\* regmap_config: 8-bit register addresses, 8-bit values; a register holds 0..255
ByteMod == 256

\* the errno values a failing bus transaction returns (-EIO, -ENXIO)
Errnos == {0 - 5, 0 - 6}

(* ---------------------------------------------------------------------- *)
(* Bounds of the model                                                     *)
(* ---------------------------------------------------------------------- *)
\* how many of LevelSample are offered to set_brightness
NumLevels == 3
\* how many of FillSample the registers may hold before probe
NumFills == 2

LevelSample == <<0, 300, 512, 1023, 1, 255, 256, 768>>
FillSample == <<0, 255, 90, 165>>

Min(a, b) == IF a < b THEN a ELSE b

Levels == {LevelSample[i] : i \in 1..Min(NumLevels, Len(LevelSample))}
Fills == {FillSample[i] : i \in 1..Min(NumFills, Len(FillSample))}

\* A u32 is kept as its two 16-bit halves <<high, low>>.
HalfMod == ByteMod * ByteMod
U32(hi, lo) == <<hi, lo>>

\* a device property that is not in the device tree (device_property_read_u32 fails)
Absent == <<>>

\* the register field of a logged operation on the enable line
NoReg == 0 - 1

\* the numeric device properties offered to probe: no property at all (every
\* default applies), every property in range, properties out of range and a
\* default brightness of 0
DeviceTrees ==
  { [cd |-> Absent, hr |-> Absent, cl |-> Absent, maxb |-> Absent, defb |-> Absent],
    [cd |-> U32(0, 1), hr |-> U32(0, 2), cl |-> U32(0, 64), maxb |-> U32(0, 600),
     defb |-> U32(0, 512)],
    [cd |-> U32(0, 7), hr |-> U32(0, 5), cl |-> Absent, maxb |-> U32(0, 5000),
     defb |-> U32(0, 0)] }

\* what the two bytes of the stack slot that regmap_bulk_read leaves alone may hold
StackGarbage == {0, 1, 65535}

(* ---------------------------------------------------------------------- *)
(* Arithmetic on machine words                                             *)
(* ---------------------------------------------------------------------- *)
Bit(x, i) == (x \div (2 ^ i)) % 2

\* a & b on the low 8 bits (regmap truncates every value to val_bits)
BitAnd(a, b) ==
  Bit(a, 0) * Bit(b, 0) + 2 * Bit(a, 1) * Bit(b, 1) + 4 * Bit(a, 2) * Bit(b, 2)
  + 8 * Bit(a, 3) * Bit(b, 3) + 16 * Bit(a, 4) * Bit(b, 4) + 32 * Bit(a, 5) * Bit(b, 5)
  + 64 * Bit(a, 6) * Bit(b, 6) + 128 * Bit(a, 7) * Bit(b, 7)

\* a ^ b on the low 8 bits
BitXor(a, b) == (a % ByteMod) + (b % ByteMod) - 2 * BitAnd(a, b)

\* the int whose 32 bits are the halves hi and lo (two's complement)
S32(hi, lo) == (IF hi >= HalfMod \div 2 THEN hi - HalfMod ELSE hi) * HalfMod + lo

\* a u32 read into an int field: the same 32 bits, read as signed
ToS32(u) == S32(u[1], u[2])

\* min_t(u32, u, m) for a bound m below 2^16
MinU32(u, m) == IF u[1] > 0 THEN m ELSE Min(u[2], m)

\* clamp(val, lo, hi) on ints
Clamp(v, lo, hi) == IF v < lo THEN lo ELSE IF v > hi THEN hi ELSE v

(* ---------------------------------------------------------------------- *)
(* State                                                                   *)
(* ---------------------------------------------------------------------- *)
VARIABLES
  phase,     \* "unbound" | "bound" | "failed" (probe returned an error) | "removed"
  enable,    \* priv->enable: TRUE iff the optional enable GPIO was acquired
  gpio,      \* last value driven on the enable line (gpiod_get_value reads it back)
  regs,      \* the IC's registers, address -> byte
  priv,      \* struct rt8555_priv: change_duty, driver_headroom, current_limit, pwm_dim_mode
  props,     \* backlight_properties: max_brightness, brightness
  call,      \* the last entry point run: op, level, ret, disabled (at entry the line
             \* existed and its last driven value was inactive)
  log,       \* the GPIO and regmap operations that entry point issued, in order
  seqDone,   \* history: a whole enable sequence has run since the line was last driven active
  tree,      \* the device properties the firmware holds for the device (read by probe)
  sched      \* the concurrent callers in flight: their calls, their places, the guard

vars == <<phase, enable, gpio, regs, priv, props, call, log, seqDone, tree, sched>>

RegAddrs == {RT8555_REG_CFG0, RT8555_REG_CFG1, RT8555_REG_ILED_CURRENT_LIMIT,
             RT8555_REG_ILED1_LSB, RT8555_REG_ILED1_MSB, RT8555_REG_CFG8}

\* one logged operation and what it returned (0 or the errno); reg is NoReg for
\* the operations on the enable line
Ev(k, reg, val, ret) == [k |-> k, reg |-> reg, val |-> val, ret |-> ret]

\* a fault plan of one call: the regmap call that fails (0: none) and its errno.
\* 1..7 are the steps of rt8555_bl_enable, 8 and 9 the first and the second byte
\* of the brightness bulk write, 10 the brightness bulk read.
FailLsb == 8
FailMsb == 9
FailRead == 10
NoFail == [at |-> 0, err |-> 0]
FailPlans(points) == {NoFail} \cup [at : points, err : Errnos]

(* ---------------------------------------------------------------------- *)
(* regmap                                                                  *)
(* ---------------------------------------------------------------------- *)
\* mutant: the whole register is replaced by the value
UpdateBitsVal_NoMask(orig, mask, val) == val % ByteMod

\* mutant: the field is toggled by the value instead of being replaced by it
UpdateBitsVal_Xor(orig, mask, val) == BitXor(orig, BitAnd(val, mask))

\* regmap_update_bits: the new content of a register holding orig
UpdateBitsVal(orig, mask, val) == BitAnd(orig, (ByteMod - 1) - mask) + BitAnd(val, mask)

\* mutant: the dim mode is set before the brightness source
EnableSteps_Swapped(p) ==
  << [k |-> "upd", reg |-> RT8555_REG_CFG1, mask |-> RT8555_EN10BIT_MASK, val |-> 255],
     [k |-> "upd", reg |-> RT8555_REG_CFG0, mask |-> RT8555_DIM_MODE_MASK,
      val |-> IF p.pwm_dim_mode THEN 0 ELSE 255],
     [k |-> "upd", reg |-> RT8555_REG_CFG0, mask |-> RT8555_BRIGHTNESS_SOURCE_MASK, val |-> 255],
     [k |-> "upd", reg |-> RT8555_REG_CFG0, mask |-> RT8555_CHANGE_DUTY_MASK,
      val |-> p.change_duty * 4],
     [k |-> "upd", reg |-> RT8555_REG_CFG0, mask |-> RT8555_MIX_26K_MASK, val |-> 255],
     [k |-> "upd", reg |-> RT8555_REG_CFG8, mask |-> RT8555_LED_DRIVER_HEADROOM_MASK,
      val |-> p.driver_headroom * 4],
     [k |-> "write", reg |-> RT8555_REG_ILED_CURRENT_LIMIT, mask |-> RT8555_LSB_MASK,
      val |-> p.current_limit] >>

\* the seven configuration steps of rt8555_bl_enable, in program order
EnableSteps(p) ==
  << [k |-> "upd", reg |-> RT8555_REG_CFG1, mask |-> RT8555_EN10BIT_MASK, val |-> 255],
     [k |-> "upd", reg |-> RT8555_REG_CFG0, mask |-> RT8555_BRIGHTNESS_SOURCE_MASK, val |-> 255],
     [k |-> "upd", reg |-> RT8555_REG_CFG0, mask |-> RT8555_DIM_MODE_MASK,
      val |-> IF p.pwm_dim_mode THEN 0 ELSE 255],
     [k |-> "upd", reg |-> RT8555_REG_CFG0, mask |-> RT8555_CHANGE_DUTY_MASK,
      val |-> p.change_duty * 4],
     [k |-> "upd", reg |-> RT8555_REG_CFG0, mask |-> RT8555_MIX_26K_MASK, val |-> 255],
     [k |-> "upd", reg |-> RT8555_REG_CFG8, mask |-> RT8555_LED_DRIVER_HEADROOM_MASK,
      val |-> p.driver_headroom * 4],
     [k |-> "write", reg |-> RT8555_REG_ILED_CURRENT_LIMIT, mask |-> RT8555_LSB_MASK,
      val |-> p.current_limit] >>

NumEnableSteps == 7

\* one step on the device state st = [regs, gpio, log, ret, done]
ApplyStep(st, s, failed, err) ==
  IF failed
  THEN [st EXCEPT !.log = Append(@, Ev(s.k, s.reg, s.val, err)), !.ret = err]
  ELSE [st EXCEPT
          !.regs[s.reg] = IF s.k = "upd" THEN UpdateBitsVal(@, s.mask, s.val)
                          ELSE s.val % ByteMod,
          !.log = Append(@, Ev(s.k, s.reg, s.val, 0))]

\* mutant: the error of a step is kept but the steps after it are issued all the same
RECURSIVE RunSteps_Continue(_, _, _, _, _)
RunSteps_Continue(st, steps, i, failAt, err) ==
  IF i > Len(steps) THEN st
  ELSE RunSteps_Continue(ApplyStep(st, steps[i], failAt = i, err), steps, i + 1, failAt, err)

\* steps i.. of the sequence; "if (ret) return ret" after every step
\* failAt is the index in steps of the step that fails (none when outside 1..Len)
RECURSIVE RunSteps(_, _, _, _, _)
RunSteps(st, steps, i, failAt, err) ==
  IF i > Len(steps) THEN st
  ELSE IF failAt = i THEN ApplyStep(st, steps[i], TRUE, err)
  ELSE RunSteps(ApplyStep(st, steps[i], FALSE, err), steps, i + 1, failAt, err)

(* ---------------------------------------------------------------------- *)
(* rt8555_bl_enable                                                        *)
(* ---------------------------------------------------------------------- *)
\* drive the line active and wait, when the line exists
PowerOn(st, en) ==
  IF en
  THEN [st EXCEPT !.gpio = 1, !.done = FALSE,
                  !.log = @ \o <<Ev("gpio", NoReg, 1, 0), Ev("sleep", NoReg, 0, 0)>>]
  ELSE st

rt8555_bl_enable(st, en, p, fail) ==
  LET r == RunSteps(PowerOn(st, en), EnableSteps(p), 1, fail.at, fail.err)
  IN [r EXCEPT !.done = IF r.ret = 0 THEN TRUE ELSE @]

\* mutant: the line is read without looking whether there is one
rt8555_bl_is_disabled_NoNullCheck(en, g) == g = 0

\* mutant: the polarity of the line is read the wrong way round
rt8555_bl_is_disabled_Inverted(en, g) == IF en THEN g # 0 ELSE FALSE

\* rt8555_bl_is_disabled
rt8555_bl_is_disabled(en, g) == IF en THEN g = 0 ELSE FALSE

(* ---------------------------------------------------------------------- *)
(* rt8555_bl_update_status                                                 *)
(* ---------------------------------------------------------------------- *)
\* regmap_bulk_write(regmap, RT8555_REG_ILED1_LSB, &brightness, 2): the first two
\* bytes of the unsigned int in memory (little-endian: bits 0-7, then bits 8-15)
\* go to ILED1_LSB and ILED1_MSB, in address order
BrightnessBytes(brightness) ==
  << [k |-> "write", reg |-> RT8555_REG_ILED1_LSB, mask |-> RT8555_LSB_MASK,
      val |-> brightness % ByteMod],
     [k |-> "write", reg |-> RT8555_REG_ILED1_MSB, mask |-> RT8555_LSB_MASK,
      val |-> (brightness \div ByteMod) % ByteMod] >>

BulkWrite(st, brightness, fail) ==
  RunSteps(st, BrightnessBytes(brightness), 1, fail.at - (FailLsb - 1), fail.err)

\* mutant: the enable sequence is run before every nonzero brightness
EnableIfDisabled_Always(st, en, p, brightness, fail) ==
  IF brightness # 0 THEN rt8555_bl_enable(st, en, p, fail) ELSE st

\* mutant: the enable sequence is run when the IC is enabled, not when it is disabled
EnableIfDisabled_Inverted(st, en, p, brightness, fail) ==
  IF brightness # 0 /\ en /\ ~rt8555_bl_is_disabled(en, st.gpio)
  THEN rt8555_bl_enable(st, en, p, fail)
  ELSE st

\* "Enable the IC (if disabled) before setting the brightness"
EnableIfDisabled(st, en, p, brightness, fail) ==
  IF brightness # 0 /\ en /\ rt8555_bl_is_disabled(en, st.gpio)
  THEN rt8555_bl_enable(st, en, p, fail)
  ELSE st

\* "Disable the IC after setting it to 0"
DisableIfZero(st, en, brightness) ==
  IF brightness = 0 /\ en
  THEN [st EXCEPT !.gpio = 0, !.log = Append(@, Ev("gpio", NoReg, 0, 0))]
  ELSE st

\* what update_status returns once the bulk write has returned wret
UpdateStatusRet(wret) == 0

\* mutant: the line is driven inactive before the brightness write
update_status_DisableFirst(st, en, p, brightness, fail) ==
  LET s1 == EnableIfDisabled(st, en, p, brightness, fail)
  IN IF s1.ret # 0 THEN s1
     ELSE LET s2 == DisableIfZero(s1, en, brightness)
              s3 == BulkWrite(s2, brightness, fail)
          IN [s3 EXCEPT !.ret = UpdateStatusRet(s3.ret)]

\* mutant: the result of rt8555_bl_enable is not looked at
update_status_IgnoreEnable(st, en, p, brightness, fail) ==
  LET s1 == [EnableIfDisabled(st, en, p, brightness, fail) EXCEPT !.ret = 0]
      s2 == BulkWrite(s1, brightness, fail)
      s3 == DisableIfZero(s2, en, brightness)
  IN [s3 EXCEPT !.ret = UpdateStatusRet(s2.ret)]

rt8555_bl_update_status(st, en, p, brightness, fail) ==
  LET s1 == EnableIfDisabled(st, en, p, brightness, fail)
  IN IF s1.ret # 0 THEN s1
     ELSE LET s2 == BulkWrite(s1, brightness, fail)
              s3 == DisableIfZero(s2, en, brightness)
          IN [s3 EXCEPT !.ret = UpdateStatusRet(s2.ret)]

(* ---------------------------------------------------------------------- *)
(* rt8555_bl_get_brightness                                                *)
(* ---------------------------------------------------------------------- *)
\* int brightness is not initialised and regmap_bulk_read stores two bytes in it:
\* the value returned keeps whatever the other two bytes of the slot held
ReadBack(lsb, msb, garbage) == S32(garbage, lsb + ByteMod * msb)

rt8555_bl_get_brightness(st, en, fail, garbage) ==
  IF rt8555_bl_is_disabled(en, st.gpio) THEN [st EXCEPT !.ret = 0]
  ELSE IF fail.at = FailRead
  THEN [st EXCEPT !.ret = fail.err,
                  !.log = Append(@, Ev("read", RT8555_REG_ILED1_LSB, 0, fail.err))]
  ELSE [st EXCEPT
          !.ret = ReadBack(st.regs[RT8555_REG_ILED1_LSB], st.regs[RT8555_REG_ILED1_MSB],
                           garbage),
          !.log = @ \o << Ev("read", RT8555_REG_ILED1_LSB, st.regs[RT8555_REG_ILED1_LSB], 0),
                          Ev("read", RT8555_REG_ILED1_MSB, st.regs[RT8555_REG_ILED1_MSB], 0) >>]

(* ---------------------------------------------------------------------- *)
(* rt8555_bl_probe                                                         *)
(* ---------------------------------------------------------------------- *)
\* the property, or the default the code falls back to when the read fails
PropOr(v, dflt) == IF v = Absent THEN U32(0, dflt) ELSE v

\* min_t(u32, brightness, RT8555_MAX_BRIGHTNESS)
ProbeMaxBrightness(maxb) == MinU32(PropOr(maxb, RT8555_MAX_BRIGHTNESS), RT8555_MAX_BRIGHTNESS)

\* min_t(u32, brightness, bl_props.max_brightness)
ProbeBrightness(defb, max) == MinU32(PropOr(defb, max), max)

\* (variant: the property is limited as the u32 it was read as)
ProbeChangeDuty_Unsigned(cd) == MinU32(PropOr(cd, RT8555_DEFAULT_CHANGE_DUTY), 3)

\* the u32 property lands in an int field, then clamp(field, 0, 3)
ProbeChangeDuty(cd) == Clamp(ToS32(PropOr(cd, RT8555_DEFAULT_CHANGE_DUTY)), 0, 3)
\* (variant: the headroom is limited to the three bits 0..7)
ProbeDriverHeadroom_Wide(hr) ==
  Clamp(ToS32(PropOr(hr, RT8555_DEFAULT_LED_DRIVER_HEADROOM)), 0, 7)
ProbeDriverHeadroom(hr) == Clamp(ToS32(PropOr(hr, RT8555_DEFAULT_LED_DRIVER_HEADROOM)), 0, 3)
ProbeCurrentLimit(cl) == ToS32(PropOr(cl, RT8555_DEFAULT_CURRENT_LIMIT))

ProbePriv(pwm, cd, hr, cl) ==
  [change_duty |-> ProbeChangeDuty(cd), driver_headroom |-> ProbeDriverHeadroom(hr),
   current_limit |-> ProbeCurrentLimit(cl), pwm_dim_mode |-> pwm]

\* mutant: the line is acquired driven inactive (GPIOD_OUT_LOW)
Acquire_Low(st, en) ==
  IF en THEN [st EXCEPT !.gpio = 0, !.done = FALSE,
                        !.log = Append(@, Ev("acquire", NoReg, 0, 0))]
  ELSE st

\* devm_gpiod_get_optional(..., GPIOD_OUT_HIGH): the line, when there is one, is
\* driven active as it is acquired
Acquire(st, en) ==
  IF en THEN [st EXCEPT !.gpio = 1, !.done = FALSE,
                        !.log = Append(@, Ev("acquire", NoReg, 1, 0))]
  ELSE st

\* the device state an entry point starts from: nothing logged, ret 0
Entry == [regs |-> regs, gpio |-> gpio, log |-> <<>>, ret |-> 0, done |-> seqDone]

Commit(st) ==
  /\ regs' = st.regs
  /\ gpio' = st.gpio
  /\ log' = st.log
  /\ seqDone' = st.done
  /\ UNCHANGED <<tree, sched>>

\* the regmap calls a call of update_status may reach: a fault plan names one of them
UpdateFailPoints(en, g, brightness) ==
  IF brightness # 0 /\ en /\ rt8555_bl_is_disabled(en, g) THEN 1..FailMsb
  ELSE {FailLsb, FailMsb}

Init ==
  /\ phase = "unbound"
  /\ enable = FALSE
  /\ gpio = 0
  /\ \E fill \in Fills : regs = [r \in RegAddrs |-> fill]
  /\ priv = [change_duty |-> 0, driver_headroom |-> 0, current_limit |-> 0,
             pwm_dim_mode |-> FALSE]
  /\ props = [max_brightness |-> 0, brightness |-> 0]
  /\ call = [op |-> "none", level |-> 0, ret |-> 0, disabled |-> FALSE]
  /\ log = <<>>
  /\ seqDone = FALSE
  /\ tree = <<>>
  /\ sched = <<>>

Probe(en, pwm, cd, hr, cl, maxb, defb, fail) ==
  /\ phase = "unbound"
  /\ LET p == ProbePriv(pwm, cd, hr, cl)
         max == ProbeMaxBrightness(maxb)
         bl == [max_brightness |-> max, brightness |-> ProbeBrightness(defb, max)]
         s1 == rt8555_bl_enable(Acquire(Entry, en), en, p, fail)
         \* backlight_update_status(priv->bl); its result is not looked at
         s2 == IF s1.ret # 0 THEN s1
               ELSE [rt8555_bl_update_status(s1, en, p, bl.brightness, fail) EXCEPT !.ret = 0]
     IN \E s \in {s2} :
        /\ enable' = en
        /\ priv' = p
        /\ props' = bl
        /\ Commit(s)
        /\ phase' = IF s.ret # 0 THEN "failed" ELSE "bound"
        /\ call' = [op |-> "probe", level |-> bl.brightness, ret |-> s.ret,
                    disabled |-> FALSE]

\* the backlight core stores the level, then calls update_status
SetBrightness(level, fail) ==
  /\ phase = "bound"
  /\ level <= props.max_brightness
  /\ fail \in FailPlans(UpdateFailPoints(enable, gpio, level))
  /\ \E s \in {rt8555_bl_update_status(Entry, enable, priv, level, fail)} :
        /\ Commit(s)
        /\ call' = [op |-> "set", level |-> level, ret |-> s.ret,
                    disabled |-> enable /\ gpio = 0]
  /\ props' = [props EXCEPT !.brightness = level]
  /\ UNCHANGED <<phase, enable, priv>>

GetBrightness(fail, garbage) ==
  /\ phase = "bound"
  \* a call that returns before the read meets no fault and looks at no stack slot
  /\ rt8555_bl_is_disabled(enable, gpio) => fail = NoFail /\ garbage = 0
  /\ \E s \in {rt8555_bl_get_brightness(Entry, enable, fail, garbage)} :
        /\ Commit(s)
        /\ call' = [op |-> "get", level |-> props.brightness, ret |-> s.ret,
                    disabled |-> enable /\ gpio = 0]
  /\ UNCHANGED <<phase, enable, priv, props>>

\* mutant: the hook does not force the level to 0
ShutdownBrightness_Keep(cur) == cur

\* bl_dev->props.brightness = 0 in rt8555_bl_remove
ShutdownBrightness(cur) == 0

\* rt8555_bl_remove, the driver's shutdown hook
Remove(fail) ==
  /\ phase = "bound"
  /\ LET s1 == rt8555_bl_update_status(Entry, enable, priv, ShutdownBrightness(props.brightness),
                                       fail)
         s2 == IF enable
               THEN [s1 EXCEPT !.gpio = 0, !.log = Append(@, Ev("gpio", NoReg, 0, 0))]
               ELSE s1
     IN \E s \in {s2} :
        /\ Commit(s)
        /\ call' = [op |-> "remove", level |-> 0, ret |-> 0,
                    disabled |-> enable /\ gpio = 0]
  /\ props' = [props EXCEPT !.brightness = ShutdownBrightness(@)]
  /\ phase' = "removed"
  /\ UNCHANGED <<enable, priv>>

Next ==
  \/ \E en \in BOOLEAN, pwm \in BOOLEAN, dt \in DeviceTrees, fail \in FailPlans(1..FailMsb) :
       Probe(en, pwm, dt.cd, dt.hr, dt.cl, dt.maxb, dt.defb, fail)
  \/ \E level \in Levels, fail \in FailPlans(1..FailMsb) : SetBrightness(level, fail)
  \/ \E fail \in FailPlans({FailRead}), garbage \in StackGarbage : GetBrightness(fail, garbage)
  \/ \E fail \in FailPlans({FailLsb, FailMsb}) : Remove(fail)

Spec == Init /\ [][Next]_vars

(* ---------------------------------------------------------------------- *)
(* Reading the log of a call                                               *)
(* ---------------------------------------------------------------------- *)
BrightnessRegs == {RT8555_REG_ILED1_LSB, RT8555_REG_ILED1_MSB}
ConfigRegs == RegAddrs \ BrightnessRegs

\* positions of the brightness-register writes issued (whether or not they landed)
BlWrites(l) == {i \in DOMAIN l : l[i].k = "write" /\ l[i].reg \in BrightnessRegs}
\* positions where the enable line was driven to v
GpioSets(l, v) == {i \in DOMAIN l : l[i].k = "gpio" /\ l[i].val = v}
\* positions of the configuration steps issued
ConfigOps(l) == {i \in DOMAIN l : l[i].k \in {"upd", "write"} /\ l[i].reg \in ConfigRegs}
\* positions of the register reads issued
BusReads(l) == {i \in DOMAIN l : l[i].k = "read"}
\* positions of the operations that returned an error
Faults(l) == {i \in DOMAIN l : l[i].ret # 0}

\* from position from + 1 on, l holds the seven configuration steps of p, in
\* order, each returning 0
FullEnableAt(l, from, p) ==
  /\ Len(l) >= from + NumEnableSteps
  /\ \A j \in 1..NumEnableSteps :
       LET s == EnableSteps(p)[j]
       IN l[from + j] = Ev(s.k, s.reg, s.val, 0)

(* ---------------------------------------------------------------------- *)
(* C1                                                                      *)
(* ---------------------------------------------------------------------- *)
\* C1: set_brightness(level) immediately followed by get_brightness(), no bus
\* operation failing in either call, returns exactly level (0 through the
\* disabled short-circuit when level is 0 and the enable line exists).
C1_RoundTrip ==
  [][ ( /\ call.op = "set" /\ Faults(log) = {}
        /\ call'.op = "get" /\ Faults(log') = {} )
      => call'.ret = call.level ]_vars

(* ---------------------------------------------------------------------- *)
(* C2                                                                      *)
(* ---------------------------------------------------------------------- *)
\* the case of C2: set_brightness(level > 0) entered with the line present and inactive
C2_Case == call.op = "set" /\ call.level > 0 /\ call.disabled

\* C2: set_brightness(level > 0) on a disabled controller first drives the enable
\* line active (and waits), and every brightness-register write of the call comes
\* after all seven configuration steps have completed; a call that returns 0 has
\* issued the brightness write with the line active.
C2_EnableBeforeWrite ==
  C2_Case =>
    /\ Len(log) >= 2
    /\ log[1] = Ev("gpio", NoReg, 1, 0)
    /\ log[2].k = "sleep"
    /\ gpio = 1
    /\ \A i \in BlWrites(log) : FullEnableAt(log, 2, priv) /\ i > 2 + NumEnableSteps
    /\ call.ret = 0 => BlWrites(log) # {}

C2_Witness ==
  /\ C2_Case
  /\ call.ret = 0
  /\ Faults(log) = {}
  /\ regs[RT8555_REG_ILED1_LSB] + ByteMod * regs[RT8555_REG_ILED1_MSB] = call.level

(* ---------------------------------------------------------------------- *)
(* C3                                                                      *)
(* ---------------------------------------------------------------------- *)
\* the brightness bulk write of value v was issued in l at position i
WriteIssued(l, i, v) ==
  /\ i \in BlWrites(l)
  /\ l[i].reg = RT8555_REG_ILED1_LSB
  /\ l[i].val = v % ByteMod

\* C3: with the line present, set_brightness(0) ends with the line inactive, and the
\* line is driven inactive only after the brightness write of the call was issued;
\* after a set_brightness(level > 0) that returned 0, that earlier call has issued
\* its write of level and has not driven the line inactive, so the write of level
\* precedes the deassertion.
C3_WriteBeforeDisable ==
  [][ (call'.op = "set" /\ call'.level = 0 /\ enable)
      => /\ gpio' = 0
         /\ GpioSets(log', 0) # {}
         /\ \E w \in BlWrites(log') :
              /\ WriteIssued(log', w, 0)
              /\ \A g \in GpioSets(log', 0) : w < g
         /\ \A w \in BlWrites(log'), g \in GpioSets(log', 0) : w < g
         /\ (call.op = "set" /\ call.level > 0 /\ call.ret = 0)
              => /\ \E w \in BlWrites(log) : WriteIssued(log, w, call.level)
                 /\ GpioSets(log, 0) = {} ]_vars

C3_Witness ==
  /\ call.op = "set" /\ call.level = 0 /\ enable
  /\ gpio = 0
  /\ Len(log) = 3
  /\ log[3] = Ev("gpio", NoReg, 0, 0)

(* ---------------------------------------------------------------------- *)
(* C4                                                                      *)
(* ---------------------------------------------------------------------- *)
\* C4: when the brightness bulk write of set_brightness fails, set_brightness
\* returns that error, and the level the caller stored stays stored.
C4_WriteErrorReported ==
  (call.op = "set" /\ \E i \in BlWrites(log) : log[i].ret # 0)
    => /\ call.ret # 0
       /\ \E i \in BlWrites(log) : call.ret = log[i].ret
       /\ props.brightness = call.level

(* ---------------------------------------------------------------------- *)
(* C5                                                                      *)
(* ---------------------------------------------------------------------- *)
\* C5: with the enable line present, a brightness write with level > 0 is only
\* issued when a whole enable sequence has run since the line was last driven
\* active (so the call after a failed enable runs the sequence again, to its end).
C5_WriteOnlyWhenConfigured ==
  (call.op = "set" /\ call.level > 0 /\ enable /\ BlWrites(log) # {}) => seqDone

(* ---------------------------------------------------------------------- *)
(* C6                                                                      *)
(* ---------------------------------------------------------------------- *)
\* the case of C6 in a log: a configuration step of the enable sequence failed
EnableFailed(l) == \E i \in ConfigOps(l) : l[i].ret # 0

\* C6: when a step of the enable sequence run inside set_brightness(level > 0)
\* fails, set_brightness returns the error of that step, issues no
\* brightness-register write, and both brightness registers keep their contents.
C6_EnableErrorAborts ==
  [][ (call'.op = "set" /\ EnableFailed(log'))
      => /\ call'.level > 0
         /\ call'.ret # 0
         /\ call'.ret = log'[Len(log')].ret
         /\ Faults(log') = {Len(log')}
         /\ BlWrites(log') = {}
         /\ \A r \in BrightnessRegs : regs'[r] = regs[r] ]_vars

C6_Witness ==
  /\ call.op = "set" /\ EnableFailed(log)
  /\ Len(log) > 3
  /\ regs[RT8555_REG_ILED1_LSB] + ByteMod * regs[RT8555_REG_ILED1_MSB] # call.level

(* ---------------------------------------------------------------------- *)
(* C7, on the enable sequence alone                                        *)
(* ---------------------------------------------------------------------- *)
\* the configurations probe can build
Configs ==
  {ProbePriv(pwm, dt.cd, dt.hr, dt.cl) : pwm \in BOOLEAN, dt \in DeviceTrees}

\* any content drawn from Fills in each configuration register, any
\* configuration, line inactive
InitEnable ==
  /\ phase = "unbound"
  /\ enable \in BOOLEAN
  /\ gpio = 0
  /\ \E c \in [ConfigRegs -> Fills] :
       regs = [r \in RegAddrs |-> IF r \in ConfigRegs THEN c[r] ELSE 0]
  /\ priv \in Configs
  /\ props = [max_brightness |-> RT8555_MAX_BRIGHTNESS, brightness |-> 0]
  /\ call = [op |-> "none", level |-> 0, ret |-> 0, disabled |-> FALSE]
  /\ log = <<>>
  /\ seqDone = FALSE
  /\ tree = <<>>
  /\ sched = <<>>

\* one call of rt8555_bl_enable
EnableCall(fail) ==
  /\ \E s \in {rt8555_bl_enable(Entry, enable, priv, fail)} :
       /\ Commit(s)
       /\ call' = [op |-> "enable", level |-> 0, ret |-> s.ret,
                   disabled |-> enable /\ gpio = 0]
  /\ UNCHANGED <<phase, enable, priv, props>>

NextEnable == \E fail \in FailPlans(1..NumEnableSteps) : EnableCall(fail)

SpecEnable == InitEnable /\ [][NextEnable]_vars

\* C7: after an enable that met no bus failure, a second enable with no bus failure
\* leaves every register and the enable line as the first left them.
C7_EnableIdempotent ==
  (call.op = "enable" /\ call.ret = 0)
    => LET again == rt8555_bl_enable(Entry, enable, priv, NoFail)
       IN /\ again.ret = 0
          /\ again.regs = regs
          /\ again.gpio = gpio

\* an enable that changed a register ran to its end, from all-ones registers
C7_Witness ==
  /\ call.op = "enable" /\ call.ret = 0
  /\ priv.pwm_dim_mode
  /\ regs[RT8555_REG_CFG0] = 254 - RT8555_CHANGE_DUTY_MASK + 4 * priv.change_duty
  /\ priv.change_duty < 3

(* ---------------------------------------------------------------------- *)
(* C8                                                                      *)
(* ---------------------------------------------------------------------- *)
\* C8: get_brightness on a disabled controller (line present, last driven value
\* inactive) returns 0 and issues no register read, whatever the brightness
\* registers hold.
C8_DisabledReadsNothing ==
  (call.op = "get" /\ enable /\ gpio = 0)
    => call.ret = 0 /\ BusReads(log) = {} /\ log = <<>>

\* a disabled controller whose brightness registers still hold a nonzero level
C8_Witness ==
  /\ call.op = "get" /\ enable /\ gpio = 0
  /\ regs[RT8555_REG_ILED1_LSB] + ByteMod * regs[RT8555_REG_ILED1_MSB] > 0

(* ---------------------------------------------------------------------- *)
(* C9                                                                      *)
(* ---------------------------------------------------------------------- *)
\* C9: the shutdown hook issues a brightness write of 0 and, when the enable line
\* exists, leaves it inactive, every deassertion coming after the write; also when
\* the write fails.
C9_ShutdownOff ==
  call.op = "remove"
    => /\ \E w \in BlWrites(log) :
            /\ WriteIssued(log, w, 0)
            /\ \A g \in GpioSets(log, 0) : w < g
       /\ \A w \in BlWrites(log) : log[w].val = 0
       /\ GpioSets(log, 1) = {}
       /\ enable => gpio = 0 /\ GpioSets(log, 0) # {}
       /\ props.brightness = 0

\* shutdown from a lit, enabled controller whose brightness write failed
C9_Witness ==
  /\ call.op = "remove" /\ enable /\ ~call.disabled
  /\ Faults(log) # {}
  /\ regs[RT8555_REG_ILED1_LSB] + ByteMod * regs[RT8555_REG_ILED1_MSB] > 0
  /\ gpio = 0

(* ---------------------------------------------------------------------- *)
(* C10                                                                     *)
(* ---------------------------------------------------------------------- *)
\* bits lo..hi of byte x, as a number
Field(x, lo, hi) == (x \div (2 ^ lo)) % (2 ^ (hi - lo + 1))

\* the register image the configuration p and the level demand
ReferenceImage(r, p, level) ==
  /\ Bit(r[RT8555_REG_CFG0], 7) = 1
  /\ Bit(r[RT8555_REG_CFG0], 1) = 1
  /\ Bit(r[RT8555_REG_CFG0], 0) = (IF p.pwm_dim_mode THEN 0 ELSE 1)
  /\ Field(r[RT8555_REG_CFG0], 2, 3) = p.change_duty
  /\ Bit(r[RT8555_REG_CFG1], 7) = 1
  /\ Field(r[RT8555_REG_CFG8], 2, 3) = p.driver_headroom
  /\ r[RT8555_REG_ILED_CURRENT_LIMIT] = p.current_limit
  /\ r[RT8555_REG_ILED1_LSB] = level % ByteMod
  /\ r[RT8555_REG_ILED1_MSB] = level \div ByteMod
  /\ r[RT8555_REG_ILED1_MSB] <= 3

\* C10: after a successful probe and a set_brightness(level), 0 < level <= 1023,
\* that returned success, the registers hold the reference image of the
\* configuration and the level, ILED1_LSB was written before ILED1_MSB, and the
\* enable line (when there is one) is active.
C10_RegisterImage ==
  (phase = "bound" /\ call.op = "set" /\ call.ret = 0 /\ call.level > 0)
    => /\ ReferenceImage(regs, priv, call.level)
       /\ \E i, j \in BlWrites(log) :
            /\ i < j
            /\ log[i].reg = RT8555_REG_ILED1_LSB
            /\ log[j].reg = RT8555_REG_ILED1_MSB
       /\ enable => gpio = 1

(* ---------------------------------------------------------------------- *)
(* C11 and C20, on probe's reading of the device properties                *)
(* ---------------------------------------------------------------------- *)
\* u32 values of change-duty and driver-headroom: in range, just out of range,
\* 2^31 - 1, 2^31, 2^32 - 1 (the bits of the int -1)
DutySamples ==
  {Absent, U32(0, 0), U32(0, 1), U32(0, 3), U32(0, 4), U32(0, 7),
   U32(HalfMod \div 2 - 1, HalfMod - 1), U32(HalfMod \div 2, 0),
   U32(HalfMod - 1, HalfMod - 1)}
HeadroomSamples == {Absent, U32(0, 2), U32(0, 7), U32(HalfMod \div 2, 5)}
MaxSamples == {Absent, U32(0, 600), U32(0, 5000), U32(1, 0)}
DefaultSamples == {Absent, U32(0, 0), U32(0, 2000), U32(HalfMod - 1, 0)}

\* the firmware's device properties are the input; the registers hold a fill
InitProbe ==
  /\ phase = "unbound"
  /\ enable = FALSE
  /\ gpio = 0
  /\ \E fill \in Fills : regs = [r \in RegAddrs |-> fill]
  /\ priv = [change_duty |-> 0, driver_headroom |-> 0, current_limit |-> 0,
             pwm_dim_mode |-> FALSE]
  /\ props = [max_brightness |-> 0, brightness |-> 0]
  /\ call = [op |-> "none", level |-> 0, ret |-> 0, disabled |-> FALSE]
  /\ log = <<>>
  /\ seqDone = FALSE
  /\ tree \in [cd : DutySamples, hr : HeadroomSamples, cl : {Absent},
               maxb : MaxSamples, defb : DefaultSamples]
  /\ sched = <<>>

\* rt8555_bl_probe on the properties of tree
ProbeTree(en, pwm, fail) ==
  Probe(en, pwm, tree.cd, tree.hr, tree.cl, tree.maxb, tree.defb, fail)

NextProbe ==
  \E en \in BOOLEAN, pwm \in BOOLEAN, fail \in FailPlans({1, NumEnableSteps, FailLsb}) :
    ProbeTree(en, pwm, fail)

SpecProbe == InitProbe /\ [][NextProbe]_vars

\* the value of a u32 below 2^31 (the ones the model can hold as a number)
Small(u) == u[1] * HalfMod + u[2]
IsSmall(u) == u # Absent /\ u[1] < HalfMod \div 2

\* C11: probe fails only when a step of the enable sequence fails on the bus,
\* never for the range of a property, and
\* the fields it builds are clamped: change_duty and driver_headroom in 0..3,
\* max_brightness <= 1023, brightness <= max_brightness; driver-headroom 7
\* gives 3, change-duty with the bits of -1 gives 0, max-brightness 5000 gives 1023.
C11_ClampedFields ==
  call.op = "probe"
    => /\ (call.ret # 0 <=> EnableFailed(log))
       /\ priv.change_duty \in 0..3
       /\ priv.driver_headroom \in 0..3
       /\ props.max_brightness \in 0..RT8555_MAX_BRIGHTNESS
       /\ props.brightness \in 0..props.max_brightness
       /\ tree.hr = U32(0, 7) => priv.driver_headroom = 3
       /\ tree.cd = U32(HalfMod - 1, HalfMod - 1) => priv.change_duty = 0
       /\ tree.maxb = U32(0, 5000) => props.max_brightness = RT8555_MAX_BRIGHTNESS

\* probe went through with all three out-of-range properties of the claim
C11_Witness ==
  /\ call.op = "probe" /\ phase = "bound"
  /\ tree.hr = U32(0, 7)
  /\ tree.cd = U32(HalfMod - 1, HalfMod - 1)
  /\ tree.maxb = U32(0, 5000)
  /\ tree.defb = U32(0, 2000)
  /\ props.brightness = RT8555_MAX_BRIGHTNESS

\* the effective value the driver computes from a u32 property value v:
\* min(v, 3) below 2^31; 0 from 2^31 on, where the int field holds v - 2^32 < 0
SignedClamp(u) == IF IsSmall(u) THEN Min(Small(u), 3) ELSE 0

\* C20 as stated: for every u32 value v supplied for change-duty or
\* driver-headroom, values from 2^31 on included, the effective field value is
\* min(v, 3).
C20_MinOfValue ==
  call.op = "probe"
    => /\ tree.cd # Absent => priv.change_duty = MinU32(tree.cd, 3)
       /\ tree.hr # Absent => priv.driver_headroom = MinU32(tree.hr, 3)

\* C20 amended: for every u32 value v supplied for change-duty or
\* driver-headroom the effective field value is min(v, 3) when v < 2^31 and 0
\* when v >= 2^31 (the int field then holds a negative number, clamped up to 0).
C20_SignedClamp ==
  call.op = "probe"
    => /\ tree.cd # Absent => priv.change_duty = SignedClamp(tree.cd)
       /\ tree.hr # Absent => priv.driver_headroom = SignedClamp(tree.hr)

\* probe has read 2^31 for change-duty and 2^31 + 5 for driver-headroom
C20_Witness ==
  /\ call.op = "probe"
  /\ tree.cd = U32(HalfMod \div 2, 0) /\ priv.change_duty = 0
  /\ tree.hr = U32(HalfMod \div 2, 5) /\ priv.driver_headroom = 0

(* ---------------------------------------------------------------------- *)
(* C13, C14, C15: the enable sequence, step by step                        *)
(* ---------------------------------------------------------------------- *)
\* the order the steps are to come in: register, bits lo..hi, field value
StepOrder(p) ==
  << [reg |-> RT8555_REG_CFG1, lo |-> 7, hi |-> 7, val |-> 1],
     [reg |-> RT8555_REG_CFG0, lo |-> 1, hi |-> 1, val |-> 1],
     [reg |-> RT8555_REG_CFG0, lo |-> 0, hi |-> 0, val |-> IF p.pwm_dim_mode THEN 0 ELSE 1],
     [reg |-> RT8555_REG_CFG0, lo |-> 2, hi |-> 3, val |-> p.change_duty],
     [reg |-> RT8555_REG_CFG0, lo |-> 7, hi |-> 7, val |-> 1],
     [reg |-> RT8555_REG_CFG8, lo |-> 2, hi |-> 3, val |-> p.driver_headroom],
     [reg |-> RT8555_REG_ILED_CURRENT_LIMIT, lo |-> 0, hi |-> 7, val |-> p.current_limit] >>

\* byte x with bits lo..hi holding v
SetField(x, lo, hi, v) == x - Field(x, lo, hi) * (2 ^ lo) + v * (2 ^ lo)

\* the registers r after the first n steps of the order took effect
RECURSIVE AfterSteps(_, _, _)
AfterSteps(r, steps, n) ==
  IF n = 0 THEN r
  ELSE LET q == AfterSteps(r, steps, n - 1)
           s == steps[n]
       IN [q EXCEPT ![s.reg] = SetField(@, s.lo, s.hi, s.val)]

\* the number of configuration steps of l that took effect
Effective(l) == Cardinality(ConfigOps(l) \ Faults(l))

\* C13: enable issues its steps in a fixed order: with an enable line, the line
\* driven active and the settle delay come before any register access; then CFG1
\* bit 7, CFG0 bit 1, CFG0 bit 0, CFG0 bits 2-3, CFG0 bit 7, CFG8 bits 2-3,
\* register 0x02; a step is issued only when every earlier one returned 0, so the
\* steps that took effect are always a prefix of that order.
C13_StepOrder ==
  [][ call'.op = "enable"
        => LET l == log'
               off == IF enable THEN 2 ELSE 0
               n == Len(l) - off
           IN /\ n \in 1..NumEnableSteps
              /\ enable => l[1] = Ev("gpio", NoReg, 1, 0) /\ l[2] = Ev("sleep", NoReg, 0, 0)
              /\ ConfigOps(l) = (off + 1)..Len(l)
              /\ \A j \in 1..n :
                   /\ l[off + j].reg = StepOrder(priv)[j].reg
                   /\ l[off + j].k = (IF j = NumEnableSteps THEN "write" ELSE "upd")
                   /\ j < n => l[off + j].ret = 0
              /\ n < NumEnableSteps => l[Len(l)].ret # 0
              /\ regs' = AfterSteps(regs, StepOrder(priv), Effective(l)) ]_vars

\* a whole enable with an enable line, and one cut after the brightness source
C13_Witness ==
  /\ call.op = "enable" /\ enable
  /\ \/ call.ret = 0 /\ Len(log) = 2 + NumEnableSteps
     \/ call.ret # 0 /\ Len(log) = 5 /\ regs[RT8555_REG_CFG0] = 2

\* C14: when step k of the enable sequence fails, enable returns the error of that
\* step, issues no step after it, and leaves what the steps before k did: the
\* line (when there is one) active and the registers as steps 1..k-1 wrote them.
C14_FailStops ==
  [][ (call'.op = "enable" /\ Faults(log') # {})
        => LET l == log'
               k == Cardinality(ConfigOps(l))
           IN /\ Faults(l) = {Len(l)}
              /\ ConfigOps(l) # {}
              /\ call'.ret = l[Len(l)].ret
              /\ call'.ret \in Errnos
              /\ enable => gpio' = 1 /\ GpioSets(l, 0) = {}
              /\ ~enable => gpio' = gpio
              /\ regs' = AfterSteps(regs, StepOrder(priv), k - 1)
              /\ \A r \in BrightnessRegs : regs'[r] = regs[r] ]_vars

\* the change of duty failed after the first three steps had changed registers
C14_Witness ==
  /\ call.op = "enable" /\ enable /\ call.ret = 0 - 5
  /\ gpio = 1
  /\ Cardinality(ConfigOps(log)) = 4
  /\ regs[RT8555_REG_CFG1] = 128
  /\ regs[RT8555_REG_CFG0] \in {2, 3}
  /\ regs[RT8555_REG_CFG8] = 255

\* C15: the bitfield steps of enable change nothing outside their masks: bits 4-6
\* of CFG0, bits 0-6 of CFG1 and bits 0-1 and 4-7 of CFG8 keep their values
\* whatever the registers held; every register access of enable addresses CFG0,
\* CFG1, CFG8 or ILED_CURRENT_LIMIT, and the brightness registers are untouched.
C15_MaskOnly ==
  [][ call'.op = "enable"
        => /\ \A b \in 4..6 : Bit(regs'[RT8555_REG_CFG0], b) = Bit(regs[RT8555_REG_CFG0], b)
           /\ \A b \in 0..6 : Bit(regs'[RT8555_REG_CFG1], b) = Bit(regs[RT8555_REG_CFG1], b)
           /\ \A b \in {0, 1, 4, 5, 6, 7} :
                Bit(regs'[RT8555_REG_CFG8], b) = Bit(regs[RT8555_REG_CFG8], b)
           /\ \A r \in BrightnessRegs : regs'[r] = regs[r]
           /\ \A i \in DOMAIN log' :
                /\ log'[i].k \in {"upd", "write", "read"} => log'[i].reg \in ConfigRegs
                /\ log'[i].k = "write" => log'[i].reg = RT8555_REG_ILED_CURRENT_LIMIT ]_vars

\* a whole enable on registers that held ones outside the masks
C15_Witness ==
  /\ call.op = "enable" /\ call.ret = 0
  /\ Field(regs[RT8555_REG_CFG0], 4, 6) = 7
  /\ Field(regs[RT8555_REG_CFG1], 0, 6) = 127
  /\ Field(regs[RT8555_REG_CFG8], 0, 1) = 3 /\ Field(regs[RT8555_REG_CFG8], 4, 7) = 15
  /\ priv.driver_headroom < 3 /\ priv.change_duty < 3

(* ---------------------------------------------------------------------- *)
(* C12                                                                     *)
(* ---------------------------------------------------------------------- *)
\* C12: get_brightness on an enabled controller returns the bus error when the
\* two-register read fails, and never a brightness then; when the read succeeds
\* it returns lsb + 256 * msb of ILED1_LSB and ILED1_MSB, read in that order.
C12_ReadErrorOrValue ==
  (call.op = "get" /\ ~call.disabled)
    => /\ BusReads(log) # {}
       /\ Faults(log) # {}
            => /\ call.ret = log[Len(log)].ret
               /\ call.ret \in Errnos
       /\ Faults(log) = {}
            => /\ log = << Ev("read", RT8555_REG_ILED1_LSB, regs[RT8555_REG_ILED1_LSB], 0),
                           Ev("read", RT8555_REG_ILED1_MSB, regs[RT8555_REG_ILED1_MSB], 0) >>
               /\ call.ret = regs[RT8555_REG_ILED1_LSB] + ByteMod * regs[RT8555_REG_ILED1_MSB]

(* ---------------------------------------------------------------------- *)
(* C16, C17                                                                *)
(* ---------------------------------------------------------------------- *)
\* C16: set_brightness(level > 0) on a controller that is enabled at entry runs
\* no step of the enable sequence: every bus operation of the call is a write to
\* ILED1_LSB or ILED1_MSB, LSB first, and CFG0, CFG1, CFG8, ILED_CURRENT_LIMIT
\* and the enable line are after the call as they were before it.
C16_EnabledSkipsEnable ==
  [][ (call'.op = "set" /\ call'.level > 0 /\ ~call'.disabled)
        => /\ log' # <<>>
           /\ DOMAIN log' = BlWrites(log')
           /\ log'[1].reg = RT8555_REG_ILED1_LSB
           /\ Len(log') = 2 => log'[2].reg = RT8555_REG_ILED1_MSB
           /\ Len(log') <= 2
           /\ \A r \in ConfigRegs : regs'[r] = regs[r]
           /\ gpio' = gpio ]_vars

\* a nonzero level written while the line was active already
C16_Witness ==
  /\ call.op = "set" /\ call.level > 0 /\ ~call.disabled
  /\ enable /\ gpio = 1
  /\ Len(log) = 2 /\ Faults(log) = {}
  /\ regs[RT8555_REG_ILED1_LSB] + ByteMod * regs[RT8555_REG_ILED1_MSB] = call.level

\* C17: with no enable line the controller is enabled in every state it is bound in:
\* get_brightness always reads the brightness registers (also when the level set
\* is 0), and set_brightness runs no step of the enable sequence, touches no
\* line and returns 0.
C17_NoLineAlwaysEnabled ==
  (phase = "bound" /\ ~enable)
    => /\ ~rt8555_bl_is_disabled(enable, gpio)
       /\ call.op = "get" => BusReads(log) # {} /\ ~call.disabled
       /\ call.op = "set"
            => /\ ConfigOps(log) = {}
               /\ GpioSets(log, 0) = {} /\ GpioSets(log, 1) = {}
               /\ call.ret = 0
               /\ ~call.disabled

\* no line, level 0 set, and get_brightness has read the registers
C17_Witness ==
  /\ ~enable /\ phase = "bound"
  /\ call.op = "get" /\ call.level = 0
  /\ props.brightness = 0
  /\ regs[RT8555_REG_ILED1_LSB] = 0 /\ regs[RT8555_REG_ILED1_MSB] = 0
  /\ Len(log) = 2 /\ BusReads(log) = {1, 2}

(* ---------------------------------------------------------------------- *)
(* C18                                                                     *)
(* ---------------------------------------------------------------------- *)
\* what probe does, in the log l of a probe call that built the configuration p
\* and returned ret: the line is acquired driven active, the whole enable sequence
\* comes before any brightness write, and a failed enable step is returned with
\* no brightness write issued
ProbeEnablesFirst(l, en, p, ret) ==
  LET off == IF en THEN 3 ELSE 0
  IN /\ en => /\ Len(l) >= 3
              /\ l[1] = Ev("acquire", NoReg, 1, 0)
              /\ l[2] = Ev("gpio", NoReg, 1, 0)
              /\ l[3] = Ev("sleep", NoReg, 0, 0)
     /\ ~en => GpioSets(l, 0) \cup GpioSets(l, 1) = {}
     /\ \A w \in BlWrites(l) : FullEnableAt(l, off, p) /\ off + NumEnableSteps < w
     /\ EnableFailed(l) => /\ ret = l[Len(l)].ret
                           /\ ret \in Errnos
                           /\ BlWrites(l) = {}
     /\ ~EnableFailed(l) => ret = 0 /\ BlWrites(l) # {}

\* a first set_brightness(level > 0) that skipped the enable sequence and wrote
\* to a configured IC
SkippedEnable(l, disabled, done) ==
  /\ ~disabled
  /\ ConfigOps(l) = {}
  /\ BlWrites(l) # {}
  /\ done

\* a first set_brightness(level > 0) that found the line inactive and ran the
\* enable sequence again: whole before its first write, or cut short, the error
\* returned and nothing written
ReranEnable(l, p, disabled, done, ret) ==
  /\ disabled
  /\ \/ FullEnableAt(l, 2, p) /\ BlWrites(l) # {} /\ done
                              /\ \A w \in BlWrites(l) : w > 2 + NumEnableSteps
     \/ EnableFailed(l) /\ BlWrites(l) = {} /\ ret # 0

\* C18 as stated: probe acquires the line driven active and runs the whole enable
\* sequence before the first brightness write, reporting a failed enable with no
\* brightness write; and the first set_brightness(level > 0) after probe sees the
\* line active, skips the enable sequence and writes to a configured IC.
C18_FirstSetSkips ==
  [][ /\ call'.op = "probe" => ProbeEnablesFirst(log', enable', priv', call'.ret)
      /\ (call.op = "probe" /\ call'.op = "set" /\ call'.level > 0)
           => SkippedEnable(log', call'.disabled, seqDone') ]_vars

\* C18 amended: probe as stated; the first set_brightness(level > 0) after probe
\* writes to a configured IC in every case, skipping the enable sequence when
\* the brightness probe wrote was not 0 or there is no line, and running it
\* again, whole, before its write when probe wrote brightness 0 and so left the
\* line inactive.
C18_FirstSetConfigured ==
  [][ /\ call'.op = "probe" => ProbeEnablesFirst(log', enable', priv', call'.ret)
      /\ (call.op = "probe" /\ call'.op = "set" /\ call'.level > 0)
           => IF enable /\ props.brightness = 0
              THEN ReranEnable(log', priv, call'.disabled, seqDone', call'.ret)
              ELSE SkippedEnable(log', call'.disabled, seqDone') ]_vars

\* probe went through with default brightness 0 and a line: the line is left
\* inactive, and a set_brightness(1) from here runs the enable sequence again
C18_Witness ==
  /\ call.op = "probe" /\ call.ret = 0 /\ phase = "bound"
  /\ enable /\ props.brightness = 0 /\ gpio = 0
  /\ FullEnableAt(log, 3, priv)
  /\ BlWrites(log) = {11, 12}
  /\ FullEnableAt(rt8555_bl_update_status(Entry, enable, priv, 1, NoFail).log, 2, priv)

(* ---------------------------------------------------------------------- *)
(* C19: two callers, one bus transaction or line operation at a time       *)
(* ---------------------------------------------------------------------- *)
Threads == {1, 2}

\* what a caller runs: set_brightness(level) through the backlight core, or the
\* shutdown hook
Calls == [op : {"set"}, level : Levels] \cup {[op |-> "shutdown", level |-> 0]}

\* a caller at the start of its call: the shutdown hook begins by zeroing
\* props.brightness, set_brightness by taking the guard
Thread(c) ==
  [op |-> c.op, level |-> c.level, pc |-> IF c.op = "shutdown" THEN "zero" ELSE "lock",
   b |-> 0, k |-> 0]

\* a device probe has bound with brightness b0 and no bus fault
Bound(en, p, b0, fill) ==
  LET blank == [regs |-> [r \in RegAddrs |-> fill], gpio |-> 0, log |-> <<>>, ret |-> 0,
                done |-> FALSE]
      s1 == rt8555_bl_enable(Acquire(blank, en), en, p, NoFail)
  IN rt8555_bl_update_status(s1, en, p, b0, NoFail)

InitConc ==
  /\ phase = "bound"
  /\ enable \in BOOLEAN
  /\ priv \in Configs
  /\ \E b0 \in Levels :
       /\ props = [max_brightness |-> RT8555_MAX_BRIGHTNESS, brightness |-> b0]
       /\ \E s \in {Bound(enable, priv, b0, 0)} :
            /\ regs = s.regs
            /\ gpio = s.gpio
            /\ \E c1 \in [op : {"set"}, level : Levels], c2 \in Calls :
                 sched = [owner |-> 0, th |-> <<Thread(c1), Thread(c2)>>,
                          from |-> [regs |-> s.regs, gpio |-> s.gpio]]
  /\ call = [op |-> "none", level |-> 0, ret |-> 0, disabled |-> FALSE]
  /\ log = <<>>
  /\ seqDone = TRUE
  /\ tree = <<>>

\* what no step of a caller touches
Frame == UNCHANGED <<phase, enable, priv, call, log, seqDone, tree>>

\* caller t moves to pc with its locals b and k
Goto(t, pc, b, k) ==
  sched' = [sched EXCEPT !.th[t].pc = pc, !.th[t].b = b, !.th[t].k = k]

\* bl_dev->props.brightness = 0, outside any guard
Zero(t) ==
  /\ sched.th[t].pc = "zero"
  /\ props' = [props EXCEPT !.brightness = ShutdownBrightness(@)]
  /\ Goto(t, "lock", 0, 0)
  /\ UNCHANGED <<regs, gpio>>
  /\ Frame

\* the guard the callers of update_status hold around it
Lock(t) ==
  /\ sched.th[t].pc = "lock"
  /\ sched.owner = 0
  /\ sched' = [sched EXCEPT !.owner = t,
                            !.th[t].pc = IF sched.th[t].op = "set" THEN "store" ELSE "read"]
  /\ UNCHANGED <<regs, gpio, props>>
  /\ Frame

\* set_brightness(level): the level is stored, under the guard
Store(t) ==
  /\ sched.th[t].pc = "store"
  /\ props' = [props EXCEPT !.brightness = sched.th[t].level]
  /\ Goto(t, "read", 0, 0)
  /\ UNCHANGED <<regs, gpio>>
  /\ Frame

\* unsigned int brightness = backlight_get_brightness(bl_dev)
ReadLevel(t) ==
  /\ sched.th[t].pc = "read"
  /\ Goto(t, "check", props.brightness, 0)
  /\ UNCHANGED <<regs, gpio, props>>
  /\ Frame

\* if (brightness && enable line && rt8555_bl_is_disabled(priv)): gpiod_get_value
CheckDisabled(t) ==
  /\ sched.th[t].pc = "check"
  /\ LET b == sched.th[t].b
     IN Goto(t, IF b # 0 /\ enable /\ rt8555_bl_is_disabled(enable, gpio)
                THEN "power" ELSE "write", b, 0)
  /\ UNCHANGED <<regs, gpio, props>>
  /\ Frame

\* rt8555_bl_enable: the line driven active, and the sleep
PowerUp(t) ==
  /\ sched.th[t].pc = "power"
  /\ gpio' = PowerOn(Entry, enable).gpio
  /\ Goto(t, "cfg", sched.th[t].b, 1)
  /\ UNCHANGED <<regs, props>>
  /\ Frame

\* rt8555_bl_enable: configuration step k, one regmap call
ConfigStep(t) ==
  /\ sched.th[t].pc = "cfg"
  /\ LET k == sched.th[t].k
     IN /\ regs' = ApplyStep(Entry, EnableSteps(priv)[k], FALSE, 0).regs
        /\ Goto(t, IF k = NumEnableSteps THEN "write" ELSE "cfg", sched.th[t].b, k + 1)
  /\ UNCHANGED <<gpio, props>>
  /\ Frame

\* regmap_bulk_write of the two brightness bytes, one regmap call
WriteLevel(t) ==
  /\ sched.th[t].pc = "write"
  /\ regs' = BulkWrite(Entry, sched.th[t].b, NoFail).regs
  /\ Goto(t, "off", sched.th[t].b, 0)
  /\ UNCHANGED <<gpio, props>>
  /\ Frame

\* if (brightness == 0) gpiod_set_value(priv->enable, 0)
PowerDown(t) ==
  /\ sched.th[t].pc = "off"
  /\ gpio' = DisableIfZero(Entry, enable, sched.th[t].b).gpio
  /\ Goto(t, "unlock", 0, 0)
  /\ UNCHANGED <<regs, props>>
  /\ Frame

\* update_status has returned: the guard is given back
Unlock(t) ==
  /\ sched.th[t].pc = "unlock"
  /\ sched.owner = t
  /\ sched' = [sched EXCEPT !.owner = 0,
                            !.th[t].pc = IF sched.th[t].op = "shutdown" THEN "tail" ELSE "done"]
  /\ UNCHANGED <<regs, gpio, props>>
  /\ Frame

\* rt8555_bl_remove after backlight_update_status: gpiod_set_value(priv->enable, 0)
RemoveTail(t) ==
  /\ sched.th[t].pc = "tail"
  /\ gpio' = IF enable THEN 0 ELSE gpio
  /\ Goto(t, "done", 0, 0)
  /\ UNCHANGED <<regs, props>>
  /\ Frame

NextConc ==
  \E t \in Threads :
    \/ Zero(t)
    \/ Lock(t)
    \/ Store(t)
    \/ ReadLevel(t)
    \/ CheckDisabled(t)
    \/ PowerUp(t)
    \/ ConfigStep(t)
    \/ WriteLevel(t)
    \/ PowerDown(t)
    \/ Unlock(t)
    \/ RemoveTail(t)

SpecConc == InitConc /\ [][NextConc]_vars

\* the call c run alone, start to end, on the device state st
Alone(st, c) ==
  LET s1 == rt8555_bl_update_status(st, enable, priv, c.level, NoFail)
  IN IF c.op = "shutdown" /\ enable THEN [s1 EXCEPT !.gpio = 0] ELSE s1

\* registers and line after the two calls, t first
SerialEnd(t) ==
  LET st == [regs |-> sched.from.regs, gpio |-> sched.from.gpio, log |-> <<>>, ret |-> 0,
             done |-> TRUE]
      s == Alone(Alone(st, sched.th[t]), sched.th[3 - t])
  IN <<s.regs, s.gpio>>

AllDone == \A t \in Threads : sched.th[t].pc = "done"

\* C19: whatever way the steps of two concurrent calls on one controller
\* interleave, registers and enable line end as one of the two serial orders of
\* the calls leaves them; so the line is never left inactive while the
\* brightness registers hold a nonzero level.
C19_Serializable ==
  AllDone
    => /\ <<regs, gpio>> \in {SerialEnd(1), SerialEnd(2)}
       /\ (enable /\ gpio = 0)
            => regs[RT8555_REG_ILED1_LSB] = 0 /\ regs[RT8555_REG_ILED1_MSB] = 0

====
